---------------------------- MODULE Spec2Model ----------------------------
(***************************************************************************)
(* A model of pythainlp/util/normalize.py: the text normalizer, the        *)
(* repeat-consonant resolver with its module-level repeater index, and the *)
(* repetition-mark (mai yamok) expander.                                    *)
(*                                                                         *)
(* A text is a sequence of Unicode code points (naturals); a token list    *)
(* or a dictionary is a sequence of texts.                                 *)
(***************************************************************************)
EXTENDS Integers, Sequences, FiniteSets, TLC

(***************************************************************************)
(* Generic sequence helpers                                                *)
(***************************************************************************)
Chars(str) == {str[i] : i \in DOMAIN str}

\* All sequences over S of length 0..n
RECURSIVE SeqsUpTo(_, _)
SeqsUpTo(S, n) ==
    IF n = 0 THEN {<< >>}
    ELSE LET shorter == SeqsUpTo(S, n - 1)
         IN  shorter \cup {Append(s, c) : s \in {t \in shorter : Len(t) = n - 1}, c \in S}

\* s[i..] ("" when i is past the end)
From(s, i) == SubSeq(s, i, Len(s))

\* the first position j >= i where s[j] is not in S (Len(s)+1 when none):
\* the end of a greedy character-class run [S]* that starts at i
RECURSIVE RunEnd(_, _, _)
RunEnd(s, i, S) ==
    IF i > Len(s) \/ s[i] \notin S THEN i ELSE RunEnd(s, i + 1, S)

\* whether the text sub occurs in s at position i
OccursAt(s, i, sub) ==
    /\ i + Len(sub) - 1 <= Len(s)
    /\ SubSeq(s, i, i + Len(sub) - 1) = sub

\* Python's `sub in s`
Contains(s, sub) == \E i \in 1..(Len(s) + 1) : OccursAt(s, i, sub)

\* Python's s.replace(old, new) for a non-empty old: leftmost, non-overlapping
RECURSIVE ReplaceFrom(_, _, _, _)
ReplaceFrom(s, i, old, new) ==
    IF i > Len(s) THEN << >>
    ELSE IF OccursAt(s, i, old) THEN new \o ReplaceFrom(s, i + Len(old), old, new)
    ELSE <<s[i]>> \o ReplaceFrom(s, i + 1, old, new)

Replace(s, old, new) == ReplaceFrom(s, 1, old, new)

(***************************************************************************)
(* Character-class tables (the strings imported from the pythainlp          *)
(* package), as texts in the order of the strings.                          *)
(***************************************************************************)
SPACE == 32
NEWLINE == 10
TAB == 9

above_v == <<3633, 3636, 3637, 3638, 3639, 3661, 3655>>
below_v == <<3640, 3641>>
follow_v == <<3632, 3634, 3635, 3653>>
lead_v == <<3648, 3649, 3650, 3651, 3652>>
tonemarks == <<3656, 3657, 3658, 3659>>
\* U+0E01..U+0E2E without RU (U+0E24) and LU (U+0E26)
consonants == (3585..3630) \ {3620, 3622}

SARA_E == 3648
SARA_AE == 3649
SARA_AA == 3634
SARA_AM == 3635
LAKKHANGYAO == 3653
NIKHAHIT == 3661
THANTHAKHAT == 3660
RU == 3620
LU == 3622
MAIYAMOK == 3654

DANGLING_CHARS == above_v \o below_v \o tonemarks \o <<3642, 3660, 3661, 3662>>

ZERO_WIDTH_CHARS == <<8203, 8204>>

NOREPEAT_CHARS == follow_v \o lead_v \o above_v \o below_v \o <<3642, 3660, 3661, 3662>>

\* the characters str.strip() and str.isspace() treat as whitespace
PY_WHITESPACE ==
    (9..13) \cup (28..32) \cup {133, 160, 5760} \cup (8192..8202)
        \cup {8232, 8233, 8239, 8287, 12288}

(***************************************************************************)
(* remove_dangling: ^[_DANGLING_CHARS]+ replaced by ""                      *)
(***************************************************************************)
remove_dangling(text) == From(text, RunEnd(text, 1, Chars(DANGLING_CHARS)))

(***************************************************************************)
(* remove_dup_spaces                                                       *)
(***************************************************************************)
\* a variant that replaces once instead of looping
CollapseSpaces_OnePass(text) == Replace(text, <<SPACE, SPACE>>, <<SPACE>>)

\* while "  " in text: text = text.replace("  ", " ")
RECURSIVE CollapseSpaces(_)
CollapseSpaces(text) ==
    IF Contains(text, <<SPACE, SPACE>>)
    THEN CollapseSpaces(Replace(text, <<SPACE, SPACE>>, <<SPACE>>))
    ELSE text

\* _RE_REMOVE_NEWLINES.sub("\n", text) with the pattern [ \n]*\n[ \n]*: a
\* match starts at the leftmost character of a run of spaces and newlines
\* that holds a newline, and greedily covers the whole run
RECURSIVE SubNewlinesFrom(_, _)
SubNewlinesFrom(s, i) ==
    IF i > Len(s) THEN << >>
    ELSE LET j == RunEnd(s, i, {SPACE, NEWLINE})
         IN  IF \E k \in i..(j - 1) : s[k] = NEWLINE
             THEN <<NEWLINE>> \o SubNewlinesFrom(s, j)
             ELSE <<s[i]>> \o SubNewlinesFrom(s, i + 1)

\* the last position j <= i where s[j] is not in S (0 when none): the
\* character before a run of S characters that ends at i
RECURSIVE RunStart(_, _, _)
RunStart(s, i, S) ==
    IF i < 1 \/ s[i] \notin S THEN i ELSE RunStart(s, i - 1, S)

\* text.strip()
Strip(text) ==
    SubSeq(text, RunEnd(text, 1, PY_WHITESPACE), RunStart(text, Len(text), PY_WHITESPACE))

remove_dup_spaces(text) == Strip(SubNewlinesFrom(CollapseSpaces(text), 1))

(***************************************************************************)
(* remove_zw, remove_tonemark                                              *)
(***************************************************************************)
\* for ch in chars: while ch in text: text = text.replace(ch, "")
RECURSIVE RemoveEach(_, _)
RemoveEach(text, chars) ==
    IF chars = << >> THEN text
    ELSE RemoveEach(Replace(text, <<Head(chars)>>, << >>), Tail(chars))

remove_zw(text) == RemoveEach(text, ZERO_WIDTH_CHARS)

remove_tonemark(text) == RemoveEach(text, tonemarks)

(***************************************************************************)
(* reorder_vowels: the five _REORDER_PAIRS, each applied once by re.sub     *)
(* (leftmost, non-overlapping, greedy), in order                            *)
(***************************************************************************)
\* re.sub("([A]+)([B]+)", "\\2\\1", s) for disjoint classes A and B
RECURSIVE SwapRunsFrom(_, _, _, _)
SwapRunsFrom(s, i, A, B) ==
    IF i > Len(s) THEN << >>
    ELSE LET j == RunEnd(s, i, A)
             k == RunEnd(s, j, B)
         IN  IF j > i /\ k > j
             THEN SubSeq(s, j, k - 1) \o SubSeq(s, i, j - 1) \o SwapRunsFrom(s, k, A, B)
             ELSE <<s[i]>> \o SwapRunsFrom(s, i + 1, A, B)

\* re.sub("\u0e4d([tonemarks]*)\u0e32", "\\1\u0e33", s)
RECURSIVE SaraAmFrom(_, _)
SaraAmFrom(s, i) ==
    IF i > Len(s) THEN << >>
    ELSE LET j == RunEnd(s, i + 1, Chars(tonemarks))
         IN  IF s[i] = NIKHAHIT /\ j <= Len(s) /\ s[j] = SARA_AA
             THEN SubSeq(s, i + 1, j - 1) \o <<SARA_AM>> \o SaraAmFrom(s, j + 1)
             ELSE <<s[i]>> \o SaraAmFrom(s, i + 1)

\* re.sub("([^\u0e24\u0e26])\u0e45", "\\1\u0e32", s)
RECURSIVE LakkhangyaoFrom(_, _)
LakkhangyaoFrom(s, i) ==
    IF i > Len(s) THEN << >>
    ELSE IF s[i] \notin {RU, LU} /\ i < Len(s) /\ s[i + 1] = LAKKHANGYAO
         THEN <<s[i], SARA_AA>> \o LakkhangyaoFrom(s, i + 2)
         ELSE <<s[i]>> \o LakkhangyaoFrom(s, i + 1)

reorder_vowels(text) ==
    LET r1 == Replace(text, <<SARA_E, SARA_E>>, <<SARA_AE>>)
        r2 == SwapRunsFrom(r1, 1, Chars(tonemarks) \cup {THANTHAKHAT},
                           Chars(above_v) \cup Chars(below_v))
        r3 == SaraAmFrom(r2, 1)
        r4 == SwapRunsFrom(r3, 1, Chars(follow_v), Chars(tonemarks))
    IN  LakkhangyaoFrom(r4, 1)

(***************************************************************************)
(* remove_repeat_vowels                                                    *)
(***************************************************************************)
\* the last position in i..(j-1) that holds ch (i itself holds ch)
RECURSIVE LastOf(_, _, _, _)
LastOf(s, i, j, ch) ==
    IF j - 1 <= i \/ s[j - 1] = ch THEN j - 1 ELSE LastOf(s, i, j - 1, ch)

\* re.sub("(ch[ ]*)+ch", ch, s): from a ch, the greedy match runs over ch and
\* spaces up to the last ch of that stretch, and needs a second ch
RECURSIVE NoRepeatFrom(_, _, _)
NoRepeatFrom(s, i, ch) ==
    IF i > Len(s) THEN << >>
    ELSE LET j == RunEnd(s, i, {ch, SPACE})
             k == LastOf(s, i, j, ch)
         IN  IF s[i] = ch /\ k > i
             THEN <<ch>> \o NoRepeatFrom(s, k + 1, ch)
             ELSE <<s[i]>> \o NoRepeatFrom(s, i + 1, ch)

\* for pair in _NOREPEAT_PAIRS: text = re.sub(pair[0], pair[1], text)
RECURSIVE NoRepeatAll(_, _)
NoRepeatAll(text, chars) ==
    IF chars = << >> THEN text
    ELSE NoRepeatAll(NoRepeatFrom(text, 1, Head(chars)), Tail(chars))

\* _RE_TONEMARKS.sub(_last_char, text): a run of tone marks becomes its last
RECURSIVE LastToneFrom(_, _)
LastToneFrom(s, i) ==
    IF i > Len(s) THEN << >>
    ELSE LET j == RunEnd(s, i, Chars(tonemarks))
         IN  IF j > i
             THEN <<s[j - 1]>> \o LastToneFrom(s, j)
             ELSE <<s[i]>> \o LastToneFrom(s, i + 1)

remove_repeat_vowels(text) ==
    LastToneFrom(NoRepeatAll(reorder_vowels(text), NOREPEAT_CHARS), 1)

(***************************************************************************)
(* normalize                                                               *)
(***************************************************************************)
normalize(text) ==
    remove_dangling(remove_repeat_vowels(remove_dup_spaces(remove_zw(text))))

(***************************************************************************)
(* Python list and string primitives used by the resolver and the expander *)
(***************************************************************************)
\* a call's outcome: the returned value, or the exception it raised
Returned(v) == [err |-> "none", val |-> v]
Raised(e) == [err |-> e, val |-> << >>]

\* s[-n:] for n >= 0: -0 is 0, so n = 0 gives the whole of s, not ""
NegSlice(s, n) ==
    IF n = 0 \/ n >= Len(s) THEN s ELSE SubSeq(s, Len(s) - n + 1, Len(s))

\* ch * n
RECURSIVE Repeat(_, _)
Repeat(ch, n) == IF n <= 0 THEN << >> ELSE <<ch>> \o Repeat(ch, n - 1)

\* s.split(sep) for a one-character sep: always at least one part
RECURSIVE SplitOn(_, _)
SplitOn(s, sep) ==
    LET j == RunEnd(s, 1, Chars(s) \ {sep})
    IN  IF j > Len(s) THEN <<s>>
        ELSE <<SubSeq(s, 1, j - 1)>> \o SplitOn(From(s, j + 1), sep)

\* sep.join(parts)
RECURSIVE JoinWith(_, _)
JoinWith(parts, sep) ==
    IF parts = << >> THEN << >>
    ELSE IF Len(parts) = 1 THEN parts[1]
    ELSE parts[1] \o <<sep>> \o JoinWith(Tail(parts), sep)

\* text.isspace()
IsSpace(text) == Len(text) > 0 /\ \A i \in DOMAIN text : text[i] \in PY_WHITESPACE

(***************************************************************************)
(* The repeater index: _update_consonant_repeaters, _is_consonant_repeater  *)
(***************************************************************************)
\* a variant without the comparison of the last two characters
is_consonant_repeater_NoPairCheck(word) ==
    /\ Len(word) > 1
    /\ word[Len(word)] \in consonants

is_consonant_repeater(word) ==
    /\ Len(word) > 1
    /\ word[Len(word)] = word[Len(word) - 1]
    /\ word[Len(word)] \in consonants

\* the words of the dictionary, in iteration order, that the register loop
\* appends to the list of key
RegisteredUnder(dictionary, key) ==
    SelectSeq(dictionary, LAMBDA word : is_consonant_repeater(word) /\ word[Len(word)] = key)

\* the index after _update_consonant_repeaters(dictionary) ran on index old:
\* every consonant's list is reset, then each repeater word is appended to
\* the list of its last character
update_consonant_repeaters(old, dictionary) ==
    [key \in DOMAIN old \cup consonants |->
        IF key \in consonants THEN RegisteredUnder(dictionary, key) ELSE old[key]]

(***************************************************************************)
(* The resolver                                                            *)
(***************************************************************************)
get_repitition_head(text, dup) == SubSeq(text, 1, RunStart(text, Len(text), {dup}))

\* the check in the loop of _find_longest_consonant_repeaters_match, without
\* its "longer than the longest so far" conjunct
repeater_matches(segment_head, repeater) ==
    LET repeater_head == get_repitition_head(repeater, repeater[Len(repeater)])
    IN  /\ Len(segment_head) >= Len(repeater_head)
        /\ NegSlice(segment_head, Len(repeater_head)) = repeater_head

\* the loop of _find_longest_consonant_repeaters_match from repeaters[k] on,
\* entered with the best match found so far
RECURSIVE FindLongestFrom(_, _, _, _)
FindLongestFrom(segment_head, repeaters, k, best) ==
    IF k > Len(repeaters) THEN best
    ELSE LET repeater == repeaters[k]
             repeater_head == get_repitition_head(repeater, repeater[Len(repeater)])
         IN  IF /\ repeater_matches(segment_head, repeater)
                /\ Len(repeater) > Len(best.longest_word)
             THEN FindLongestFrom(segment_head, repeaters, k + 1,
                      [longest_word |-> repeater,
                       repetition |-> Len(repeater) - Len(repeater_head)])
             ELSE FindLongestFrom(segment_head, repeaters, k + 1, best)

find_longest_consonant_repeaters_match(segment_head, repeaters) ==
    FindLongestFrom(segment_head, repeaters, 1, [longest_word |-> << >>, repetition |-> 0])

\* whether _remove_repeat_consonants_from_segment acts on the segment
is_target(segment) ==
    /\ Len(segment) > 1
    /\ segment[Len(segment)] \in consonants
    /\ segment[Len(segment)] = segment[Len(segment) - 1]

remove_repeat_consonants_from_segment(segment, index) ==
    IF ~is_target(segment) THEN Returned(segment)
    ELSE LET dup == segment[Len(segment)]
         IN  IF dup \notin DOMAIN index THEN Raised("KeyError")
             ELSE LET segment_head == get_repitition_head(segment, dup)
                      found == find_longest_consonant_repeaters_match(segment_head, index[dup])
                  IN  IF Len(found.longest_word) > 0
                      THEN Returned(segment_head \o Repeat(dup, found.repetition))
                      ELSE Returned(segment_head \o Repeat(dup, 1))

\* a variant that resolves the last segment of the line only
ResolveLine_LastOnly(line, index) ==
    LET segments == SplitOn(line, SPACE)
        last == remove_repeat_consonants_from_segment(segments[Len(segments)], index)
    IN  IF last.err # "none"
        THEN Raised("KeyError")
        ELSE Returned(JoinWith([segments EXCEPT ![Len(segments)] = last.val], SPACE))

\* one line of the text: split on spaces, each segment resolved, joined back
ResolveLine(line, index) ==
    LET segments == SplitOn(line, SPACE)
        resolved == [cnt \in DOMAIN segments |->
                        remove_repeat_consonants_from_segment(segments[cnt], index)]
    IN  IF \E cnt \in DOMAIN resolved : resolved[cnt].err # "none"
        THEN Raised("KeyError")
        ELSE Returned(JoinWith([cnt \in DOMAIN resolved |-> resolved[cnt].val], SPACE))

\* the body of remove_repeat_consonants after the index update, run on the
\* index the call left in consonants_repeaters
ResolveText(text, index) ==
    LET lines == SplitOn(text, NEWLINE)
        modified_lines == [n \in DOMAIN lines |-> ResolveLine(lines[n], index)]
    IN  IF \E n \in DOMAIN modified_lines : modified_lines[n].err # "none"
        THEN Raised("KeyError")
        ELSE Returned(JoinWith([n \in DOMAIN modified_lines |-> modified_lines[n].val], NEWLINE))

\* a variant that scans the dictionary on every call, whatever the flag
IndexAfterCall_AlwaysUpdate(index, dictionary, dictionary_updated) ==
    update_consonant_repeaters(index, dictionary)

\* the index a call of remove_repeat_consonants leaves behind
IndexAfterCall(index, dictionary, dictionary_updated) ==
    IF dictionary_updated THEN update_consonant_repeaters(index, dictionary) ELSE index

(***************************************************************************)
(* maiyamok                                                                *)
(***************************************************************************)
\* one pass of the loop body for sent[j], entered with _list_word = lw and
\* the counter i; gives the exception raised, or the new _list_word and i
maiyamok_iter(sent, j, lw, i) ==
    LET text == sent[j]
        mark == <<MAIYAMOK>>
        unfused == IF Contains(text, <<SPACE, MAIYAMOK>>)
                   THEN Replace(text, <<SPACE, MAIYAMOK>>, mark)
                   ELSE text
    IN  IF IsSpace(text) /\ j + 1 > Len(sent)
        THEN [err |-> "IndexError", lw |-> lw, i |-> i]
        ELSE IF IsSpace(text) /\ Contains(sent[j + 1], mark)
        THEN [err |-> "none", lw |-> lw, i |-> i]
        ELSE IF unfused = mark
        THEN \* _list_word[i - 1]; an index of -1 is the last element
             IF i - 1 >= Len(lw) \/ (i - 1 < 0 /\ -(i - 1) > Len(lw))
             THEN [err |-> "IndexError", lw |-> lw, i |-> i]
             ELSE [err |-> "none",
                   lw |-> Append(lw, IF i - 1 >= 0 THEN lw[i] ELSE lw[Len(lw) + i]),
                   i |-> i + 1]
        ELSE IF Contains(unfused, mark)
        THEN LET stripped == Replace(unfused, mark, << >>)
             IN  [err |-> "none", lw |-> lw \o <<stripped, stripped>>, i |-> i + 2]
        ELSE [err |-> "none", lw |-> Append(lw, unfused), i |-> i + 1]

\* the loop from sent[j] on; steps collects _list_word after each completed
\* pass, so steps[j] is the output so far once sent[j] was handled
RECURSIVE maiyamok_loop(_, _, _, _, _)
maiyamok_loop(sent, j, lw, i, steps) ==
    IF j > Len(sent) THEN [err |-> "none", val |-> lw, steps |-> steps]
    ELSE LET r == maiyamok_iter(sent, j, lw, i)
         IN  IF r.err # "none" THEN [err |-> r.err, val |-> << >>, steps |-> steps]
             ELSE maiyamok_loop(sent, j + 1, r.lw, r.i, Append(steps, r.lw))

\* maiyamok(sent) for a token list (a str is first tokenized into one)
maiyamok(sent) == maiyamok_loop(sent, 1, << >>, 0, << >>)

(***************************************************************************)
(* State                                                                   *)
(*   consonants_repeaters  the module-level repeater index: a mapping from *)
(*                         the keys it holds to their word lists           *)
(*   pc                    "idle", or "returned" once a call has ended and *)
(*                         its outcome is with the caller                  *)
(*   op                    the public function of the last call            *)
(*   text                  that call's text (for maiyamok, its token list) *)
(*   dictionary            that call's dictionary, in iteration order      *)
(*   dictionary_updated    that call's dictionary_updated flag             *)
(*   ret                   the call's outcome: [err, val]                  *)
(*   steps                 maiyamok: _list_word after each pass of its loop*)
(*   calls                 how many calls were made                        *)
(*   built                 history: the dictionary of the last call with   *)
(*                         dictionary_updated = True that ended before the *)
(*                         present call began, if there was one            *)
(***************************************************************************)
VARIABLES consonants_repeaters, pc, op, text, dictionary, dictionary_updated,
          ret, steps, calls, built

vars == <<consonants_repeaters, pc, op, text, dictionary, dictionary_updated,
          ret, steps, calls, built>>

NoRet == [err |-> "none", val |-> << >>]

NotBuilt == [seen |-> FALSE, dictionary |-> << >>]

(***************************************************************************)
(* Bounds of the model                                                     *)
(***************************************************************************)
KO_KAI == 3585
MO_MA == 3617

\* resolver: texts of one segment, dictionaries of several words
MaxTextLen == 4
MaxDict == 2
TextChars == {KO_KAI, MO_MA}
DictWords ==
    { <<MO_MA, MO_MA>>, <<MO_MA, MO_MA, MO_MA>>, <<KO_KAI, MO_MA, MO_MA>>,
      <<KO_KAI, MO_MA>> }
Texts == SeqsUpTo(TextChars, MaxTextLen)
Dictionaries == SeqsUpTo(DictWords, MaxDict)

\* resolver, runs about the index: repeaters of two consonants, words that
\* are no repeaters, a few texts
MaxIndexTextLen == 2
MaxIndexDict == 2
IndexWords ==
    { <<MO_MA, MO_MA>>, <<KO_KAI, MO_MA, MO_MA>>, <<KO_KAI, KO_KAI>>,
      <<KO_KAI, MO_MA>>, <<SARA_AA, SARA_AA>>, <<MO_MA>> }
IndexTexts == SeqsUpTo({MO_MA}, MaxIndexTextLen)
IndexDictionaries == SeqsUpTo(IndexWords, MaxIndexDict)

\* resolver, runs about the text: multi-word, multi-line texts
MaxLinesLen == 5
MaxLinesDict == 1
LinesChars == {MO_MA, SARA_AA, SPACE, NEWLINE}
LinesWords == { <<MO_MA, MO_MA, MO_MA>> }
LinesTexts == SeqsUpTo(LinesChars, MaxLinesLen)
LinesDictionaries == SeqsUpTo(LinesWords, MaxLinesDict)

\* resolver, runs about the cached index: repeaters of two consonants and a
\* word that is no repeater, texts of one segment
MaxCacheTextLen == 3
MaxCacheDict == 2
CacheWords ==
    { <<KO_KAI, MO_MA, MO_MA>>, <<KO_KAI, KO_KAI>>, <<KO_KAI, MO_MA>> }
CacheTexts == SeqsUpTo(TextChars, MaxCacheTextLen)
CacheDictionaries == SeqsUpTo(CacheWords, MaxCacheDict)

\* normalize
MaxNormLen == 4
MaxNormCalls == 2
NormChars == {SPACE, KO_KAI, 3656, NIKHAHIT, SARA_AA, LAKKHANGYAO, SARA_E, 8203}
NormTexts == SeqsUpTo(NormChars, MaxNormLen)

\* remove_dup_spaces
MaxSpacesLen == 5
SpacesChars == {SPACE, NEWLINE, TAB, KO_KAI}
SpacesTexts == SeqsUpTo(SpacesChars, MaxSpacesLen)

\* maiyamok
MaxTokens == 4
Tokens ==
    { <<KO_KAI>>, <<MO_MA>>, <<MAIYAMOK>>, <<SPACE>>, <<SPACE, MAIYAMOK>>,
      <<KO_KAI, MAIYAMOK>>, <<SPACE, SPACE>> }
TokenLists == SeqsUpTo(Tokens, MaxTokens)

(***************************************************************************)
(* Initial states                                                          *)
(***************************************************************************)
\* the module as imported: consonants_repeaters = {}
Fresh ==
    /\ consonants_repeaters = << >>
    /\ pc = "idle"
    /\ op = "none"
    /\ dictionary = << >>
    /\ dictionary_updated = FALSE
    /\ ret = NoRet
    /\ steps = << >>
    /\ calls = 0
    /\ built = NotBuilt

Init == Fresh /\ text = << >>

InitNormalize == Fresh /\ text \in NormTexts

InitSpaces == Fresh /\ text \in SpacesTexts

InitMaiyamok == Fresh /\ text \in TokenLists

(***************************************************************************)
(* Actions: one per public function called                                 *)
(***************************************************************************)
\* remove_repeat_consonants(t, d, u); a dictionary of None stands for the
\* corpus word list thai_words(), some word list d as well
RemoveRepeatConsonants(t, d, u) ==
    /\ pc = "idle"
    /\ consonants_repeaters' = IndexAfterCall(consonants_repeaters, d, u)
    /\ ret' = ResolveText(t, consonants_repeaters')
    /\ text' = t
    /\ dictionary' = d
    /\ dictionary_updated' = u
    /\ op' = "remove_repeat_consonants"
    /\ pc' = "returned"
    /\ UNCHANGED <<steps, calls, built>>

CallRebuild(TextSet, DictSet) ==
    /\ pc = "idle"
    /\ \E t \in TextSet, d \in DictSet : RemoveRepeatConsonants(t, d, TRUE)

CallCached(TextSet, DictSet) ==
    /\ pc = "idle"
    /\ \E t \in TextSet, d \in DictSet : RemoveRepeatConsonants(t, d, FALSE)

\* the caller takes the outcome; the index stays for the next call
Discard ==
    /\ pc = "returned"
    /\ op = "remove_repeat_consonants"
    /\ pc' = "idle"
    /\ op' = "none"
    /\ text' = << >>
    /\ dictionary' = << >>
    /\ dictionary_updated' = FALSE
    /\ ret' = NoRet
    /\ built' = IF dictionary_updated
                THEN [seen |-> TRUE, dictionary |-> dictionary]
                ELSE built
    /\ UNCHANGED <<consonants_repeaters, steps, calls>>

\* normalize(text)
Normalize ==
    /\ pc = "idle"
    /\ calls < MaxNormCalls
    /\ ret' = Returned(normalize(text))
    /\ op' = "normalize"
    /\ pc' = "returned"
    /\ calls' = calls + 1
    /\ UNCHANGED <<consonants_repeaters, text, dictionary, dictionary_updated, steps,
                   built>>

\* the caller passes the normalized text to the next call
PassOn ==
    /\ pc = "returned"
    /\ op = "normalize"
    /\ calls < MaxNormCalls
    /\ text' = ret.val
    /\ ret' = NoRet
    /\ pc' = "idle"
    /\ UNCHANGED <<consonants_repeaters, op, dictionary, dictionary_updated, steps, calls,
                   built>>

\* remove_dup_spaces(text)
RemoveDupSpaces ==
    /\ pc = "idle"
    /\ ret' = Returned(remove_dup_spaces(text))
    /\ op' = "remove_dup_spaces"
    /\ pc' = "returned"
    /\ calls' = calls + 1
    /\ UNCHANGED <<consonants_repeaters, text, dictionary, dictionary_updated, steps,
                   built>>

\* maiyamok(sent) with sent = text, a token list
Maiyamok ==
    /\ pc = "idle"
    /\ LET r == maiyamok(text)
       IN  /\ ret' = [err |-> r.err, val |-> r.val]
           /\ steps' = r.steps
    /\ op' = "maiyamok"
    /\ pc' = "returned"
    /\ calls' = calls + 1
    /\ UNCHANGED <<consonants_repeaters, text, dictionary, dictionary_updated, built>>

(***************************************************************************)
(* Specifications                                                          *)
(***************************************************************************)
Next == CallRebuild(Texts, Dictionaries) \/ CallCached(Texts, Dictionaries) \/ Discard

Spec == Init /\ [][Next]_vars

NextLines ==
    \/ CallRebuild(LinesTexts, LinesDictionaries)
    \/ CallCached(LinesTexts, LinesDictionaries)
    \/ Discard

SpecLines == Init /\ [][NextLines]_vars

NextIndex ==
    \/ CallRebuild(IndexTexts, IndexDictionaries)
    \/ CallCached(IndexTexts, IndexDictionaries)
    \/ Discard

SpecIndex == Init /\ [][NextIndex]_vars

NextCache ==
    \/ CallRebuild(CacheTexts, CacheDictionaries)
    \/ CallCached(CacheTexts, CacheDictionaries)
    \/ Discard

SpecCache == Init /\ [][NextCache]_vars

NextNormalize == Normalize \/ PassOn

SpecNormalize == InitNormalize /\ [][NextNormalize]_vars

SpecSpaces == InitSpaces /\ [][RemoveDupSpaces]_vars

SpecMaiyamok == InitMaiyamok /\ [][Maiyamok]_vars

(***************************************************************************)
(* Vocabulary of the properties                                            *)
(***************************************************************************)
ResolverReturned == pc = "returned" /\ op = "remove_repeat_consonants"

\* the segments of a text: what lies between its spaces and newlines
RECURSIVE SegmentsOf(_)
SegmentsOf(t) ==
    LET j == RunEnd(t, 1, Chars(t) \ {SPACE, NEWLINE})
    IN  IF j > Len(t) THEN <<t>>
        ELSE <<SubSeq(t, 1, j - 1)>> \o SegmentsOf(From(t, j + 1))

\* the spaces and newlines of a text, in order
Separators(t) == SelectSeq(t, LAMBDA c : c \in {SPACE, NEWLINE})

\* the length of the run of the last character at the end of a non-empty s
TrailingRunLen(s) == Len(s) - RunStart(s, Len(s), {s[Len(s)]})

\* s without the run of its last character at its end
StrippedHead(s) == SubSeq(s, 1, Len(s) - TrailingRunLen(s))

EndsWith(s, suffix) ==
    /\ Len(suffix) <= Len(s)
    /\ SubSeq(s, Len(s) - Len(suffix) + 1, Len(s)) = suffix

\* the candidates (positions in the list) whose stripped head ends the head
SuffixMatching(head, candidates) ==
    {k \in DOMAIN candidates : EndsWith(head, StrippedHead(candidates[k]))}

\* among the positions M of a candidate list: the first of the longest words
FirstLongest(candidates, M) ==
    CHOOSE k \in M : \A m \in M :
        \/ Len(candidates[k]) > Len(candidates[m])
        \/ Len(candidates[k]) = Len(candidates[m]) /\ k <= m

\* the target segments of the last call's text, each with its resolved form
TargetSegmentsHold(P(_, _)) ==
    LET segs == SegmentsOf(text)
        outs == SegmentsOf(ret.val)
    IN  \A i \in DOMAIN segs :
            is_target(segs[i]) => i \in DOMAIN outs /\ P(segs[i], outs[i])

(***************************************************************************)
(* C1. normalize is idempotent: normalizing the output of normalize gives  *)
(* that output back.                                                        *)
(***************************************************************************)
C1_NormalizeIdempotent ==
    (pc = "returned" /\ op = "normalize" /\ calls >= 2) => ret.val = text

(***************************************************************************)
(* C2. A resolver call never fails on the index lookup: whatever the text, *)
(* the dictionary and the rebuild flag, and also as the first call with no *)
(* index built yet, the call returns a text.                                *)
(***************************************************************************)
C2_LookupNeverFails == ResolverReturned => ret.err = "none"

(***************************************************************************)
(* C3. Whenever a dictionary match is found for a segment the resolver     *)
(* acts on, the confirmed repeat count is at least 1 and at most the       *)
(* length of the trailing run in the segment, so the resolved segment is   *)
(* never longer than the segment.                                           *)
(***************************************************************************)
C3_CountWithinRun(seg, out) ==
    LET dup == seg[Len(seg)]
        found == find_longest_consonant_repeaters_match(
                     get_repitition_head(seg, dup), consonants_repeaters[dup])
    IN  Len(found.longest_word) > 0 =>
            /\ found.repetition >= 1
            /\ found.repetition <= TrailingRunLen(seg)
            /\ Len(out) <= Len(seg)

\* C3: for every target segment of a returned call, a found match has a
\* repeat count in 1..(trailing run of the segment)
C3_RepeatCountWithinRun ==
    (ResolverReturned /\ ret.err = "none") => TargetSegmentsHold(C3_CountWithinRun)

(***************************************************************************)
(* C4. A target segment resolves to head + dup * n, n being the trailing   *)
(* run of the longest candidate whose stripped head ends the head (the     *)
(* first of them in stored order among equally long ones), and to          *)
(* head + dup when no candidate matches.                                    *)
(***************************************************************************)
C4_Expected(seg, candidates) ==
    LET dup == seg[Len(seg)]
        head == StrippedHead(seg)
        M == SuffixMatching(head, candidates)
    IN  IF M = {} THEN Append(head, dup)
        ELSE head \o Repeat(dup, TrailingRunLen(candidates[FirstLongest(candidates, M)]))

C4_IsExpected(seg, out) == out = C4_Expected(seg, consonants_repeaters[seg[Len(seg)]])

\* C4: every target segment of a returned call resolves to the expected
\* form, candidates matching by the suffix rule
C4_LongestMatchOutput ==
    (ResolverReturned /\ ret.err = "none") => TargetSegmentsHold(C4_IsExpected)

\* the expected form with "matches" read as the loop's own check
C4_ExpectedByCheck(seg, candidates) ==
    LET dup == seg[Len(seg)]
        head == StrippedHead(seg)
        M == {k \in DOMAIN candidates : repeater_matches(head, candidates[k])}
    IN  IF M = {} THEN Append(head, dup)
        ELSE head \o Repeat(dup, TrailingRunLen(candidates[FirstLongest(candidates, M)]))

C4_IsExpectedByCheck(seg, out) ==
    out = C4_ExpectedByCheck(seg, consonants_repeaters[seg[Len(seg)]])

\* every target segment resolves to the first of the longest candidates
\* that pass the loop's check, or to head + dup when none passes
LongestCheckedMatchOutput ==
    (ResolverReturned /\ ret.err = "none") => TargetSegmentsHold(C4_IsExpectedByCheck)

(***************************************************************************)
(* C5. After any sequence of index builds, every word stored under key c   *)
(* has length >= 2, has c as its last two characters, and c is a consonant.*)
(***************************************************************************)
C5_IndexInvariant ==
    \A c \in DOMAIN consonants_repeaters :
        \A k \in DOMAIN consonants_repeaters[c] :
            LET word == consonants_repeaters[c][k]
            IN  /\ Len(word) >= 2
                /\ word[Len(word)] = c
                /\ word[Len(word) - 1] = c
                /\ c \in consonants

\* a build from a dictionary that holds a repeater of MO MA and a word that
\* is no repeater has run, and left nothing under KO KAI
C5_Witness ==
    /\ ResolverReturned
    /\ dictionary_updated
    /\ \E k \in DOMAIN dictionary : ~is_consonant_repeater(dictionary[k])
    /\ \E k \in DOMAIN dictionary : dictionary[k] \in Chars(consonants_repeaters[MO_MA])
    /\ consonants_repeaters[KO_KAI] = << >>

(***************************************************************************)
(* Vocabulary of the expander's properties: the loop pass for sent[j] was  *)
(* entered / was completed, and the output list it was entered with.       *)
(***************************************************************************)
MaiyamokReturned == pc = "returned" /\ op = "maiyamok"

PassEntered(j) == Len(steps) >= j - 1

PassCompleted(j) == Len(steps) >= j

OutputBefore(j) == IF j = 1 THEN << >> ELSE steps[j - 1]

BareMark == <<MAIYAMOK>>

FusedMark == <<SPACE, MAIYAMOK>>

\* the token list with every fused mark token replaced by a bare mark token
Unfused(sent) == [j \in DOMAIN sent |-> IF sent[j] = FusedMark THEN BareMark ELSE sent[j]]

IsPrefix(a, b) == Len(a) <= Len(b) /\ SubSeq(b, 1, Len(a)) = a

(***************************************************************************)
(* C6. At every position of a token list, a bare mark token appends one    *)
(* duplicate of the last token placed into the output so far, and a fused  *)
(* space+mark token gives exactly the output of a bare mark token there.   *)
(***************************************************************************)
C6_MarkDuplicatesLast ==
    MaiyamokReturned =>
        /\ \A j \in DOMAIN text :
               (text[j] \in {BareMark, FusedMark} /\ PassEntered(j)) =>
                   /\ PassCompleted(j)
                   /\ OutputBefore(j) # << >>
                   /\ steps[j] = Append(OutputBefore(j),
                                        OutputBefore(j)[Len(OutputBefore(j))])
        /\ LET bare == maiyamok(Unfused(text))
           IN  ret = [err |-> bare.err, val |-> bare.val]

(***************************************************************************)
(* C7. A whitespace-only token is left out exactly when the next token of  *)
(* the input holds the mark; every other whitespace-only token, the last   *)
(* token of the list too, is appended unchanged; the output only grows at  *)
(* its end, in the order of the input.                                      *)
(***************************************************************************)
C7_WhitespaceTokens ==
    MaiyamokReturned =>
        /\ \A j \in DOMAIN text :
               (IsSpace(text[j]) /\ PassEntered(j)) =>
                   /\ PassCompleted(j)
                   /\ steps[j] = IF j < Len(text) /\ Contains(text[j + 1], BareMark)
                                 THEN OutputBefore(j)
                                 ELSE Append(OutputBefore(j), text[j])
        /\ \A j \in DOMAIN steps : IsPrefix(OutputBefore(j), steps[j])
        /\ ret.err = "none" => ret.val = OutputBefore(Len(text) + 1)

(***************************************************************************)
(* C8. The output of remove_dup_spaces holds no two consecutive spaces,    *)
(* and every run of newlines, blank lines and the spaces around them is    *)
(* replaced by exactly one newline: no two consecutive newlines, no space  *)
(* next to a newline.                                                       *)
(***************************************************************************)
SpacesReturned == pc = "returned" /\ op = "remove_dup_spaces"

Count(t, ch) == Cardinality({i \in DOMAIN t : t[i] = ch})

\* position i starts a maximal run of spaces and newlines that holds a newline
StartsNewlineRun(t, i) ==
    /\ t[i] \in {SPACE, NEWLINE}
    /\ i = 1 \/ t[i - 1] \notin {SPACE, NEWLINE}
    /\ \E k \in i..(RunEnd(t, i, {SPACE, NEWLINE}) - 1) : t[k] = NEWLINE

\* the run has a character that is no whitespace somewhere before it and
\* somewhere after it
IsInner(t, i) ==
    /\ \E a \in 1..(i - 1) : t[a] \notin PY_WHITESPACE
    /\ \E b \in i..Len(t) : t[b] \notin PY_WHITESPACE

NewlineRuns(t) == {i \in DOMAIN t : StartsNewlineRun(t, i)}

InnerNewlineRuns(t) == {i \in NewlineRuns(t) : IsInner(t, i)}

Tidy(out) ==
    /\ ~Contains(out, <<SPACE, SPACE>>)
    /\ ~Contains(out, <<NEWLINE, NEWLINE>>)
    /\ ~Contains(out, <<SPACE, NEWLINE>>)
    /\ ~Contains(out, <<NEWLINE, SPACE>>)

\* C8 as stated: no two consecutive spaces, and one newline in the output
\* for every run of newlines and the spaces around them
C8_EveryRunOneNewline ==
    SpacesReturned =>
        /\ Tidy(ret.val)
        /\ Count(ret.val, NEWLINE) = Cardinality(NewlineRuns(text))

\* t with every maximal run of spaces and newlines replaced by one newline
\* when it holds a newline, and by one space otherwise
RECURSIVE RunsCollapsed(_)
RunsCollapsed(t) ==
    IF t = << >> THEN << >>
    ELSE LET j == RunEnd(t, 1, {SPACE, NEWLINE})
         IN  IF j = 1 THEN <<t[1]>> \o RunsCollapsed(Tail(t))
             ELSE <<IF NEWLINE \in Chars(SubSeq(t, 1, j - 1)) THEN NEWLINE ELSE SPACE>>
                      \o RunsCollapsed(From(t, j))

\* t without its leading and trailing whitespace
Trimmed(t) ==
    LET inner == {i \in DOMAIN t : t[i] \notin PY_WHITESPACE}
    IN  IF inner = {} THEN << >>
        ELSE SubSeq(t, CHOOSE a \in inner : \A i \in inner : a <= i,
                       CHOOSE b \in inner : \A i \in inner : b >= i)

\* C8 as amended: the same, for the runs inside the text; the runs in its
\* leading and trailing whitespace are trimmed away
C8_InnerRunOneNewline ==
    SpacesReturned =>
        /\ Tidy(ret.val)
        /\ Count(ret.val, NEWLINE) = Cardinality(InnerNewlineRuns(text))
        /\ ret.val = Trimmed(RunsCollapsed(text))

\* a blank line with spaces around it inside the text became one newline,
\* and a run at the edge of the text went away
C8_Witness ==
    /\ SpacesReturned
    /\ Cardinality(InnerNewlineRuns(text)) = 1
    /\ Cardinality(NewlineRuns(text)) = 2
    /\ Count(text, NEWLINE) >= 3
    /\ Count(ret.val, NEWLINE) = 1

(***************************************************************************)
(* C9. On a multi-line, multi-word text the resolver keeps the spaces and  *)
(* newlines as they are, the i-th segment of the output is the resolver's  *)
(* result for the i-th segment of the input alone, and a segment that is   *)
(* no target comes back unchanged.                                          *)
(***************************************************************************)
C9_SegmentsIndependent ==
    (ResolverReturned /\ ret.err = "none") =>
        LET segs == SegmentsOf(text)
            outs == SegmentsOf(ret.val)
        IN  /\ Separators(ret.val) = Separators(text)
            /\ Len(outs) = Len(segs)
            /\ \A i \in DOMAIN segs :
                   /\ ResolveText(segs[i], consonants_repeaters) = Returned(outs[i])
                   /\ ~is_target(segs[i]) => outs[i] = segs[i]

\* two lines, two words in a line, a segment resolved and one left as it is
C9_Witness ==
    /\ ResolverReturned
    /\ ret.err = "none"
    /\ SPACE \in Chars(text)
    /\ NEWLINE \in Chars(text)
    /\ \E i \in DOMAIN SegmentsOf(text) :
           is_target(SegmentsOf(text)[i]) /\ SegmentsOf(ret.val)[i] # SegmentsOf(text)[i]
    /\ \E i \in DOMAIN SegmentsOf(text) :
           SegmentsOf(text)[i] # << >> /\ ~is_target(SegmentsOf(text)[i])

(***************************************************************************)
(* C10. A candidate of the index counts as matching a segment head exactly *)
(* when the head ends with the candidate's stripped head; a candidate made *)
(* of the repeated consonant only (empty stripped head) matches any head.  *)
(***************************************************************************)
C10_MatchesAsSuffix(seg, out) ==
    LET candidates == consonants_repeaters[seg[Len(seg)]]
    IN  \A k \in DOMAIN candidates :
            repeater_matches(StrippedHead(seg), candidates[k])
                <=> EndsWith(StrippedHead(seg), StrippedHead(candidates[k]))

\* C10: for every target segment of a returned call, the loop's check of a
\* candidate agrees with the suffix rule
C10_SuffixMatchRule ==
    (ResolverReturned /\ ret.err = "none") => TargetSegmentsHold(C10_MatchesAsSuffix)

(***************************************************************************)
(* C11. After a call with dictionary_updated = True and dictionary D1,     *)
(* every later call with dictionary_updated = False (up to the next call   *)
(* with True) returns the result computed from D1's repeater words,        *)
(* whatever dictionary it is given; and a call with dictionary_updated =   *)
(* True and dictionary D2 leaves the index holding exactly D2's repeater   *)
(* words, with no entry remaining from D1.                                  *)
(***************************************************************************)
\* the words of dictionary D that end with the consonant c doubled, in the
\* order of D
RepeaterWordsOf(D, c) ==
    SelectSeq(D, LAMBDA word : c \in consonants /\ EndsWith(word, <<c, c>>))

\* the index that holds exactly the repeater words of D
IndexOf(D) == [c \in consonants |-> RepeaterWordsOf(D, c)]

\* every word the index holds, under any key
WordsHeld(index) == UNION {Chars(index[c]) : c \in DOMAIN index}

C11_CachedIndex ==
    /\ (ResolverReturned /\ ~dictionary_updated /\ built.seen) =>
           /\ consonants_repeaters = IndexOf(built.dictionary)
           /\ ret = ResolveText(text, IndexOf(built.dictionary))
           /\ ret.err = "none"
    /\ (ResolverReturned /\ dictionary_updated) =>
           /\ consonants_repeaters = IndexOf(dictionary)
           /\ WordsHeld(consonants_repeaters) \subseteq Chars(dictionary)

\* a call with dictionary_updated = False returned after a build from D1:
\* it was given another dictionary, with a repeater D1 lacks, and its result
\* is the one D1 gives and not the one the dictionary it was given would give
C11_Witness ==
    /\ ResolverReturned
    /\ ~dictionary_updated
    /\ built.seen
    /\ WordsHeld(IndexOf(built.dictionary)) # {}
    /\ WordsHeld(IndexOf(dictionary)) \ WordsHeld(IndexOf(built.dictionary)) # {}
    /\ ret # ResolveText(text, IndexOf(dictionary))
    /\ ret.val # text

\* a call with dictionary_updated = True and D2 returned after a build from
\* D1: a repeater of D1 that D2 lacks is gone from the index, under a key
\* that D2 has no word for, and a repeater of D2 is there
C11_WitnessRebuild ==
    /\ ResolverReturned
    /\ dictionary_updated
    /\ built.seen
    /\ \E c \in consonants :
           /\ RepeaterWordsOf(built.dictionary, c) # << >>
           /\ consonants_repeaters[c] = << >>
    /\ WordsHeld(consonants_repeaters) \ Chars(built.dictionary) # {}

=============================================================================
